---- MODULE Spec2Model ----
(***************************************************************************)
(* Comment-submission webhook handler (netlify/functions/                  *)
(* submission-created.js and its three sibling revisions).                *)
(*                                                                         *)
(* The repository holds four revisions of the same handler:               *)
(*   "A"  src/unnamed/part_000                      direct append to main  *)
(*   "B1" src/netlify/functions/submission-created.js:1-189   review branch*)
(*   "B2" src/netlify/functions/submission-created.js:191-372 review branch*)
(*   "B3" src/unnamed/part_001                      review branch + deploy *)
(* A deployment runs one revision (variant); invocations of it run        *)
(* concurrently against one hosted repository (the store).  Every await   *)
(* on a store call is one step of an invocation.                          *)
(*                                                                         *)
(* Strings are tuples of pieces (single characters wherever the handler   *)
(* looks inside a string, whole literals for the fixed texts), so that    *)
(* trimming, prefix tests and sanitising are computed and not assumed.    *)
(***************************************************************************)
EXTENDS Integers, Sequences, FiniteSets, TLC

\* ------------------------------------------------------------------ bounds
NumInvocations == 2

Invocations == 1..NumInvocations

\* ----------------------------------------------------------------- strings
Undefined == <<"undefined-value">>

Truthy(v) == v # Undefined /\ v # <<>>

StartsWith(s, p) == Len(s) >= Len(p) /\ SubSeq(s, 1, Len(p)) = p

IsPrefix(s, t) == Len(s) <= Len(t) /\ SubSeq(t, 1, Len(s)) = s

Whitespace == {" ", "\t", "\n"}

RECURSIVE TrimStart(_)
TrimStart(s) ==
    IF s # <<>> /\ Head(s) \in Whitespace THEN TrimStart(Tail(s)) ELSE s

RECURSIVE TrimEnd(_)
TrimEnd(s) ==
    IF s # <<>> /\ s[Len(s)] \in Whitespace
    THEN TrimEnd(SubSeq(s, 1, Len(s) - 1)) ELSE s

Trim(s) == TrimEnd(TrimStart(s))

DigitChar(d) == <<"0", "1", "2", "3", "4", "5", "6", "7", "8", "9">>[d + 1]

\* Date.now().toString(): the decimal digits of the clock value
RECURSIVE toString(_)
toString(n) ==
    IF n < 10 THEN <<DigitChar(n)>>
    ELSE toString(n \div 10) \o <<DigitChar(n % 10)>>

AlphaNum == {"a", "b", "c", "x", "A", "0", "1", "2", "3", "4", "5", "6", "7", "8", "9"}

\* String(article_slug).replace(/[^a-z0-9]/gi, "-")
sanitizedSlug(slug) ==
    [k \in 1..Len(slug) |-> IF slug[k] \in AlphaNum THEN slug[k] ELSE "-"]

\* ---------------------------------------------------- program constants
REPO_BRANCH == <<"main">>
FORM_NAME_PREFIX == <<"comments-">>
MaxCommentLength == 2000

PathRoot == <<"_data/comments/">>
PathSuffix == <<".json">>
BranchPrefix == <<"comment-">>

\* (variation) the path is built from the sanitized slug, like the branch name
commentsFilePath_sanitized(article_slug) ==
    PathRoot \o sanitizedSlug(article_slug) \o PathSuffix

\* const commentsFilePath = `_data/comments/${article_slug}.json`
commentsFilePath(article_slug) == PathRoot \o article_slug \o PathSuffix

newBranchName(v, article_slug, id) ==
    IF v = "B1"
    THEN BranchPrefix \o article_slug \o <<"-">> \o id
    ELSE BranchPrefix \o sanitizedSlug(article_slug) \o <<"-">> \o id

\* ------------------------------------------------------------------ events
\* The inbound event, flattened: event.httpMethod, event.body (missing, not
\* JSON, or JSON), JSON.parse(event.body).payload and payload.data (present or
\* not), and the fields the handler destructures.
Response(status, key, text, detail) ==
    [statusCode |-> status, body |-> <<key, text, detail>>]

NoResponse == Response(0, "", "", <<>>)

FieldNames == <<"name", "comment", "article_slug", "article_title">>

RECURSIVE FilterMissing(_, _)
FilterMissing(e, names) ==
    IF names = <<>> THEN <<>>
    ELSE (IF Truthy(e[Head(names)]) THEN <<>> ELSE <<Head(names)>>)
         \o FilterMissing(e, Tail(names))

\* [ !name && "name", ... ].filter(Boolean)
missing(e) == FilterMissing(e, FieldNames)

\* body of the 5xx response: `Error processing comment: ${error.message}`
ServerError(v, message) ==
    Response(500, IF v = "B1" THEN "text" ELSE "error",
             "Error processing comment: ", message)

TypeErrorMessage == <<"TypeError">>

\* What a TypeError thrown by a destructuring outside the parse try-block
\* becomes: revision A catches it in its outer try, the others do not.
DestructureThrows(v) ==
    IF v = "A" THEN ServerError(v, TypeErrorMessage)
    ELSE Response(-1, "uncaught", "TypeError", <<>>)

JsonKey(v, key) == IF v = "B1" THEN "text" ELSE key

\* Steps 4-6 of the handler: parse, form filter, honeypot, required fields,
\* length.  The result is the response returned, or NoResponse when the
\* payload passes validation.
validate(v, e) ==
    IF v = "B1" /\ e.bodyKind = "missing"
    THEN Response(400, "text", "Event body is missing.", <<>>)
    ELSE IF e.bodyKind # "json"
    THEN Response(400, "text", "Malformed request body.", <<>>)
    ELSE IF ~e.hasPayload
    THEN DestructureThrows(v)
    ELSE IF ~Truthy(e.form_name) \/ ~StartsWith(e.form_name, FORM_NAME_PREFIX)
    THEN Response(200, JsonKey(v, "message"),
                  "not a comment form. Submission skipped.", <<>>)
    ELSE IF ~e.hasData
    THEN DestructureThrows(v)
    ELSE IF Truthy(e.botField)
    THEN Response(400, JsonKey(v, "error"), "Spam submission detected.", <<>>)
    ELSE IF missing(e) # <<>>
    THEN Response(400, JsonKey(v, "error"), "Missing required fields: ",
                  IF v = "B1" THEN FieldNames ELSE missing(e))
    ELSE IF Len(e.comment) > MaxCommentLength
    THEN Response(400, JsonKey(v, "error"), "Comment is too long", <<>>)
    ELSE NoResponse

\* (variation) the record keeps the submitter's email
commentData_withEmail(e, now) ==
    [id |-> toString(now), name |-> Trim(e.name),
     comment |-> Trim(e.comment), date |-> <<"iso", toString(now)>>,
     email |-> e.email]

\* const commentData = { id: Date.now().toString(), name: name.trim(), ... }
commentData(e, now) ==
    [id |-> toString(now), name |-> Trim(e.name),
     comment |-> Trim(e.comment), date |-> <<"iso", toString(now)>>]

NoComment == [id |-> <<>>, name |-> <<>>, comment |-> <<>>, date |-> <<>>]

\* ------------------------------------------------------------------- store
\* The hosted repository.  A tree maps the paths that exist to file contents;
\* a file content is the persisted form of a collection.  A commit sha names
\* the tree of that commit, a blob sha names a file content.
Null == <<>>

\* the members an object literal of the handler can carry, in the order the
\* handler lists them
KeyOrder == <<"id", "name", "comment", "date", "email">>

\* the keys of an object, in insertion order
Members(r) == SelectSeq(KeyOrder, LAMBDA key : key \in DOMAIN r)

\* (variation) only the new record is serialised
Encode_last(comments) ==
    [k \in 1..1 |->
        [j \in 1..Len(Members(comments[Len(comments)])) |->
            <<Members(comments[Len(comments)])[j],
              comments[Len(comments)][Members(comments[Len(comments)])[j]]>>]]

\* JSON.stringify(updatedComments, null, 2), Base64-encoded: every record
\* becomes the list of its members, key and value, in insertion order.
Encode(comments) ==
    [k \in 1..Len(comments) |->
        [j \in 1..Len(Members(comments[k])) |->
            <<Members(comments[k])[j], comments[k][Members(comments[k])[j]]>>]]

\* JSON.parse(Base64.decode(fileData.content))
Decode(content) ==
    [k \in 1..Len(content) |->
        [key \in {content[k][j][1] : j \in 1..Len(content[k])} |->
            content[k][CHOOSE j \in 1..Len(content[k]) : content[k][j][1] = key][2]]]

Sha(content) == <<"blob", content>>

Call(op, ref, content, res) ==
    [op |-> op, ref |-> ref, content |-> content, res |-> res]

\* a call of the contents API, which also names the file
FileCall(op, ref, path, content, res) ==
    [op |-> op, ref |-> ref, path |-> path, content |-> content, res |-> res]

\* error.message of a failed store call
Message(op, res) == <<op, res>>

VARIABLES
    variant,           \* the deployed revision of the handler
    cfgOk,             \* GITHUB_TOKEN, GITHUB_REPO_OWNER, GITHUB_REPO_NAME are set
    clock,             \* Date.now()
    main,              \* tree at the tip of REPO_BRANCH
    branches,          \* the other branches: name -> tree at its tip
    pulls,             \* open review requests
    pc,                \* where each invocation stands
    event,             \* the event each invocation was given
    rec,               \* commentData
    mainBranchSha,     \* result of getRef
    branchCreated,     \* createRef has succeeded in this invocation
    existingComments,
    fileSha,
    error,             \* message of the error caught by the handler's catch
    calls,             \* the calls each invocation has issued, with outcomes
    resp               \* the response returned

vars == <<variant, cfgOk, clock, main, branches, pulls, pc, event, rec,
          mainBranchSha, branchCreated, existingComments, fileSha, error,
          calls, resp>>

storeVars == <<main, branches, pulls>>

Variants == {"A", "B1", "B2", "B3"}
StrategyB == {"B1", "B2", "B3"}

slugOf(i) == event[i].article_slug
pathOf(i) == commentsFilePath(slugOf(i))
branchOf(i) == newBranchName(variant, slugOf(i), rec[i].id)

\* the branch the read and the write are aimed at
targetRef(i) == IF variant = "A" THEN REPO_BRANCH ELSE branchOf(i)

RefExists(ref) == ref = REPO_BRANCH \/ ref \in DOMAIN branches

RefTree(ref) == IF ref = REPO_BRANCH THEN main ELSE branches[ref]

\* ------------------------------------------------------------ event inputs
CommentsForm == FORM_NAME_PREFIX \o <<"a">>
OtherForm == <<"contact">>

\* the article the concurrent submissions are for
Slugs == {<<"a", "_">>}

ValidEvent(slug) ==
    [httpMethod |-> "POST", bodyKind |-> "json", hasPayload |-> TRUE,
     hasData |-> TRUE, form_name |-> CommentsForm, id |-> Undefined,
     name |-> <<"A", " ">>, comment |-> <<" ", "h", "i">>,
     article_slug |-> slug, article_title |-> <<"T">>,
     email |-> Undefined, botField |-> Undefined]

\* events of the concurrency specification: valid comment submissions
EventsC == {ValidEvent(s) : s \in Slugs}

NoEvent == [ValidEvent(<<>>) EXCEPT !.bodyKind = "missing", !.hasPayload = FALSE,
            !.hasData = FALSE, !.form_name = Undefined, !.name = Undefined,
            !.comment = Undefined, !.article_slug = Undefined,
            !.article_title = Undefined]

\* a collection already on the main line when the handler is deployed
PriorComment ==
    [id |-> <<"0">>, name |-> <<"Z">>, comment |-> <<"o", "l", "d">>,
     date |-> <<"iso", <<"0">>>>]

\* The main line when the handler is deployed: it holds the collection of
\* another article, and the collection of the article commented on exists
\* or not.
OtherTree == commentsFilePath(<<"b">>) :> Encode(<<PriorComment>>)

InitialTrees ==
    {OtherTree,
     (commentsFilePath(<<"a", "_">>) :> Encode(<<PriorComment>>)) @@ OtherTree}

\* -------------------------------------------------------------------- Init
InitWith(v) ==
    /\ variant = v
    /\ cfgOk \in (IF v = "A" THEN BOOLEAN ELSE {TRUE})
    /\ clock = 1
    /\ main \in InitialTrees
    /\ branches = <<>>
    /\ pulls = {}
    /\ pc = [i \in Invocations |-> "idle"]
    /\ event = [i \in Invocations |-> NoEvent]
    /\ rec = [i \in Invocations |-> NoComment]
    /\ mainBranchSha = [i \in Invocations |-> Null]
    /\ branchCreated = [i \in Invocations |-> FALSE]
    /\ existingComments = [i \in Invocations |-> <<>>]
    /\ fileSha = [i \in Invocations |-> Null]
    /\ error = [i \in Invocations |-> Null]
    /\ calls = [i \in Invocations |-> <<>>]
    /\ resp = [i \in Invocations |-> NoResponse]

Init == \E v \in Variants : InitWith(v)

\* ------------------------------------------------------------ handler entry
MethodNotAllowed == Response(405, "text", "Method Not Allowed", <<>>)

\* validateConfiguration(), the httpMethod check and initializeOctokit(),
\* in the order the revision runs them before it parses the body.  The
\* result is the response returned and the calls issued; a response of
\* NoResponse means the payload passed validation.
entry(v, cfg, e, authOk) ==
    IF v = "A"
    THEN IF ~cfg
         THEN [resp |-> ServerError(v, <<"Missing required environment variables">>),
               calls |-> <<>>]
         ELSE IF e.httpMethod # "POST"
         THEN [resp |-> MethodNotAllowed, calls |-> <<>>]
         ELSE IF ~authOk
         THEN [resp |-> ServerError(v, <<"Octokit initialization failed">>),
               calls |-> <<Call("getAuthenticated", Null, Null, "fail")>>]
         ELSE [resp |-> validate(v, e),
               calls |-> <<Call("getAuthenticated", Null, Null, "ok")>>]
    ELSE IF v # "B1" /\ e.httpMethod # "POST"
    THEN [resp |-> MethodNotAllowed, calls |-> <<>>]
    ELSE [resp |-> validate(v, e), calls |-> <<>>]

\* The handler runs from its first line to its first store call of the
\* append protocol (or to its return).  Invocations are numbered in their
\* order of arrival.
Receive(i, e) ==
    /\ pc[i] = "idle"
    /\ \A j \in Invocations : j < i => pc[j] # "idle"
    /\ \E authOk \in BOOLEAN :
         LET out == entry(variant, cfgOk, e, authOk) IN
         /\ event' = [event EXCEPT ![i] = e]
         /\ calls' = [calls EXCEPT ![i] = out.calls]
         /\ IF out.resp = NoResponse
            THEN /\ rec' = [rec EXCEPT ![i] = commentData(e, clock)]
                 /\ pc' = [pc EXCEPT ![i] =
                             IF variant = "A" THEN "getContent" ELSE "getRef"]
                 /\ resp' = resp
            ELSE /\ rec' = rec
                 /\ pc' = [pc EXCEPT ![i] =
                             IF out.resp.statusCode = -1 THEN "threw" ELSE "done"]
                 /\ resp' = [resp EXCEPT ![i] =
                             IF out.resp.statusCode = -1 THEN NoResponse ELSE out.resp]
    /\ UNCHANGED <<variant, cfgOk, clock, storeVars, mainBranchSha,
                   branchCreated, existingComments, fileSha, error>>

\* ---------------------------------------------------------- catch / cleanup
\* error.attemptedBranchCreation: no error the handler catches carries it
attemptedBranchCreation(message) == FALSE

\* Revision B3 sets branchCreated after createRef (part_001:98,116); its
\* catch block lies beyond the end of the file and is taken from section 4.2,
\* step 7: the branch is deleted if it was created.
cleanupIfBranchCreated(created) == created

\* whether the catch block issues deleteRef for newBranchName
cleanupAttempted(v, created, message) ==
    CASE v = "B1" -> attemptedBranchCreation(message)
      [] v = "B2" -> TRUE
      [] v = "B3" -> cleanupIfBranchCreated(created)
      [] OTHER -> FALSE

Log(i, call) == calls' = [calls EXCEPT ![i] = Append(@, call)]

\* (variation) a version conflict makes the handler read again and retry
Caught_retry(i, message) ==
    /\ error' = [error EXCEPT ![i] = message]
    /\ IF message = <<"createOrUpdateFileContents", "conflict">>
       THEN /\ pc' = [pc EXCEPT ![i] = "getContent"]
            /\ resp' = resp
       ELSE IF cleanupAttempted(variant, branchCreated[i], message)
       THEN /\ pc' = [pc EXCEPT ![i] = "cleanup"]
            /\ resp' = resp
       ELSE /\ pc' = [pc EXCEPT ![i] = "done"]
            /\ resp' = [resp EXCEPT ![i] = ServerError(variant, message)]

\* A store call of invocation i failed with `message`: control is in the
\* catch block, up to its own await (deleteRef) or to its return.
Caught(i, message) ==
    /\ error' = [error EXCEPT ![i] = message]
    /\ IF cleanupAttempted(variant, branchCreated[i], message)
       THEN /\ pc' = [pc EXCEPT ![i] = "cleanup"]
            /\ resp' = resp
       ELSE /\ pc' = [pc EXCEPT ![i] = "done"]
            /\ resp' = [resp EXCEPT ![i] = ServerError(variant, message)]

\* --------------------------------------------------------- append protocol
\* octokit.git.getRef({ ref: `heads/${REPO_BRANCH}` })
GetRef(i) ==
    /\ pc[i] = "getRef"
    /\ \E ok \in BOOLEAN :
         IF ok
         THEN /\ Log(i, Call("getRef", REPO_BRANCH, Null, "ok"))
              /\ mainBranchSha' = [mainBranchSha EXCEPT ![i] = main]
              /\ pc' = [pc EXCEPT ![i] = "createRef"]
              /\ UNCHANGED <<error, resp>>
         ELSE /\ Log(i, Call("getRef", REPO_BRANCH, Null, "fail"))
              /\ Caught(i, Message("getRef", "fail"))
              /\ UNCHANGED mainBranchSha
    /\ UNCHANGED <<variant, cfgOk, clock, storeVars, event, rec, branchCreated,
                   existingComments, fileSha>>

\* octokit.git.createRef({ ref: `refs/heads/${newBranchName}`, sha })
CreateRef(i) ==
    /\ pc[i] = "createRef"
    /\ \E ok \in BOOLEAN :
         LET res == IF branchOf(i) \in DOMAIN branches THEN "exists"
                    ELSE IF ok THEN "ok" ELSE "fail"
         IN
         /\ Log(i, Call("createRef", branchOf(i), Null, res))
         /\ IF res = "ok"
            THEN /\ branches' = (branchOf(i) :> mainBranchSha[i]) @@ branches
                 /\ branchCreated' = [branchCreated EXCEPT ![i] = TRUE]
                 /\ pc' = [pc EXCEPT ![i] = "getContent"]
                 /\ UNCHANGED <<error, resp>>
            ELSE /\ Caught(i, Message("createRef", res))
                 /\ UNCHANGED <<branches, branchCreated>>
    /\ UNCHANGED <<variant, cfgOk, clock, main, pulls, event, rec,
                   mainBranchSha, existingComments, fileSha>>

\* (variation) every read error is taken for not-found, not only a 404
GetContent_swallow(i) ==
    /\ pc[i] = "getContent"
    /\ \E ok \in BOOLEAN :
         LET ref == targetRef(i)
             found == RefExists(ref) /\ pathOf(i) \in DOMAIN RefTree(ref)
             content == IF found THEN RefTree(ref)[pathOf(i)] ELSE Null
             res == IF ~ok THEN "fail" ELSE IF found THEN "ok" ELSE "notfound"
         IN
         /\ Log(i, FileCall("getContent", ref, pathOf(i), content, res))
         /\ existingComments' = [existingComments EXCEPT ![i] =
                IF res = "ok" THEN Decode(content) ELSE <<>>]
         /\ fileSha' = [fileSha EXCEPT ![i] =
                IF res = "ok" THEN Sha(content) ELSE Null]
         /\ pc' = [pc EXCEPT ![i] = "createOrUpdate"]
         /\ UNCHANGED <<error, resp>>
    /\ UNCHANGED <<variant, cfgOk, clock, storeVars, event, rec, mainBranchSha,
                   branchCreated>>

\* octokit.repos.getContent({ path: commentsFilePath, ref })
GetContent(i) ==
    /\ pc[i] = "getContent"
    /\ \E ok \in BOOLEAN :
         LET ref == targetRef(i)
             found == RefExists(ref) /\ pathOf(i) \in DOMAIN RefTree(ref)
             content == IF found THEN RefTree(ref)[pathOf(i)] ELSE Null
             res == IF ~ok THEN "fail" ELSE IF found THEN "ok" ELSE "notfound"
         IN
         /\ Log(i, FileCall("getContent", ref, pathOf(i), content, res))
         /\ IF res = "fail"
            THEN /\ Caught(i, Message("getContent", res))
                 /\ UNCHANGED <<existingComments, fileSha>>
            ELSE /\ existingComments' = [existingComments EXCEPT ![i] =
                        IF res = "ok" THEN Decode(content) ELSE <<>>]
                 /\ fileSha' = [fileSha EXCEPT ![i] =
                        IF res = "ok" THEN Sha(content) ELSE Null]
                 /\ pc' = [pc EXCEPT ![i] = "createOrUpdate"]
                 /\ UNCHANGED <<error, resp>>
    /\ UNCHANGED <<variant, cfgOk, clock, storeVars, event, rec, mainBranchSha,
                   branchCreated>>

\* (variation) the new record is put at the head
updatedComments_unshift(i) == <<rec[i]>> \o existingComments[i]

\* const updatedComments = [...existingComments, commentData]
updatedComments(i) == existingComments[i] \o <<rec[i]>>

\* (variation) the sha of the file as it is at write time, not as it was read
shaArgument_latest(i) ==
    IF RefExists(targetRef(i)) /\ pathOf(i) \in DOMAIN RefTree(targetRef(i))
    THEN Sha(RefTree(targetRef(i))[pathOf(i)]) ELSE Null

\* the `sha:` argument of createOrUpdateFileContents
shaArgument(i) == fileSha[i]

\* (variation) the write is aimed at the main line
branchArgument_main(i) == REPO_BRANCH

\* the `branch:` argument of createOrUpdateFileContents
branchArgument(i) == targetRef(i)

\* The store's answer to a write: the branch must exist, and the blob sha
\* passed must be that of the file now at the path (none when there is no
\* file).
writeResult(ref, path, sha) ==
    IF ~RefExists(ref) THEN "notfound"
    ELSE IF path \in DOMAIN RefTree(ref)
    THEN (IF sha = Sha(RefTree(ref)[path]) THEN "ok" ELSE "conflict")
    ELSE (IF sha = Null THEN "ok" ELSE "conflict")

Published(id) ==
    Response(200, "message", "Comment published successfully. Thank you!", id)

\* octokit.repos.createOrUpdateFileContents({ path, content, sha, branch })
CreateOrUpdate(i) ==
    /\ pc[i] = "createOrUpdate"
    /\ \E ok \in BOOLEAN :
         LET ref == branchArgument(i)
             content == Encode(updatedComments(i))
             res == IF ~ok THEN "fail"
                    ELSE writeResult(ref, pathOf(i), shaArgument(i))
         IN
         /\ Log(i, FileCall("createOrUpdateFileContents", ref, pathOf(i), content, res))
         /\ IF res = "ok"
            THEN /\ IF ref = REPO_BRANCH
                    THEN /\ main' = (pathOf(i) :> content) @@ main
                         /\ UNCHANGED branches
                    ELSE /\ branches' = [branches EXCEPT ![ref] =
                                            (pathOf(i) :> content) @@ @]
                         /\ UNCHANGED main
                 /\ IF variant = "A"
                    THEN /\ pc' = [pc EXCEPT ![i] = "done"]
                         /\ resp' = [resp EXCEPT ![i] = Published(rec[i].id)]
                    ELSE /\ pc' = [pc EXCEPT ![i] = "pulls"]
                         /\ resp' = resp
                 /\ UNCHANGED error
            ELSE /\ Caught(i, Message("createOrUpdateFileContents", res))
                 /\ UNCHANGED <<main, branches>>
    /\ UNCHANGED <<variant, cfgOk, clock, pulls, event, rec, mainBranchSha,
                   branchCreated, existingComments, fileSha>>

Pending(v, head) ==
    Response(200, "message",
             CASE v = "B1" -> "Comment submitted for moderation. Thank you!"
               [] v = "B2" -> "Comment submitted and pull request to main created successfully."
               [] OTHER -> "Comment submitted, branch created, PR generated and deploy triggered.",
             head)

\* how a template literal renders a value: `${undefined}` is "undefined"
Render(v) == IF v = Undefined THEN <<"undefined">> ELSE v

\* const prTitle = `New Comment: ${article_title} by ${name}`
prTitle(e) == <<"New Comment: ">> \o Render(e.article_title) \o <<" by ">> \o Render(e.name)

\* `User Email: ${email || "Not provided"}`
emailLine(e) ==
    <<"\nUser Email: ">> \o (IF Truthy(e.email) THEN e.email ELSE <<"Not provided">>)

\* const prBody: the template literal of the revision with the values it
\* interpolates (the template's backquotes are written as apostrophes)
prBody(v, e, id, head) ==
    CASE v = "B1" ->
           <<"\nNew comment submitted for article: **">> \o Render(e.article_title)
           \o <<"** ('slug: ">> \o Render(e.article_slug)
           \o <<"')\nBy: **">> \o Render(e.name)
           \o <<"**\nComment ID: '">> \o id
           \o <<"'\n\n---\n**Comment:**\n> ">> \o Render(e.comment)
           \o <<"\n---\n\nPlease review and merge if appropriate.\nSubmission ID: ">>
           \o Render(e.id) \o <<"\n">>
      [] v = "B2" ->
           <<"\nNew comment submitted for article: **">> \o Render(e.article_title)
           \o <<"** (slug: ">> \o Render(e.article_slug)
           \o <<")\nBy: **">> \o Render(e.name) \o <<"**">> \o emailLine(e)
           \o <<"\nComment ID: ">> \o id
           \o <<"\n\n---\n**Comment:**\n> ">> \o Render(e.comment)
           \o <<"\n\nThis pull request will merge branch '">> \o head
           \o <<"' into '">> \o REPO_BRANCH \o <<"' (main).\n">>
      [] OTHER ->
           <<"\nNew comment submitted for article: **">> \o Render(e.article_title)
           \o <<"** ('slug: ">> \o Render(e.article_slug)
           \o <<"')\nBy: **">> \o Render(e.name) \o <<"**">> \o emailLine(e)
           \o <<"\nComment ID: '">> \o id
           \o <<"'\n\n---\n**Comment:**\n> ">> \o Render(e.comment)
           \o <<"\n    \nThis pull request deploys from branch '">> \o head
           \o <<"'.\n    ">>

\* octokit.pulls.create({ title: prTitle, head: newBranchName,
\*                        base: REPO_BRANCH, body: prBody })
PullsCreate(i) ==
    /\ pc[i] = "pulls"
    /\ \E ok \in BOOLEAN :
         LET head == branchOf(i)
             body == prBody(variant, event[i], rec[i].id, head)
             res == IF ~ok THEN "fail"
                    ELSE IF head \notin DOMAIN branches THEN "notfound"
                    ELSE IF \E p \in pulls : p.head = head THEN "exists"
                    ELSE "ok"
         IN
         /\ Log(i, Call("pulls.create", head, body, res))
         /\ IF res = "ok"
            THEN /\ pulls' = pulls \cup {[head |-> head, base |-> REPO_BRANCH,
                                          title |-> prTitle(event[i]),
                                          body |-> body]}
                 /\ IF variant = "B3"
                    THEN /\ pc' = [pc EXCEPT ![i] = "deploy"]
                         /\ resp' = resp
                    ELSE /\ pc' = [pc EXCEPT ![i] = "done"]
                         /\ resp' = [resp EXCEPT ![i] = Pending(variant, head)]
                 /\ UNCHANGED error
            ELSE /\ Caught(i, Message("pulls.create", res))
                 /\ UNCHANGED pulls
    /\ UNCHANGED <<variant, cfgOk, clock, main, branches, event, rec,
                   mainBranchSha, branchCreated, existingComments, fileSha>>

\* fetch(`https://api.netlify.com/api/v1/sites/${NETLIFY_SITE_ID}/builds`):
\* a rejected fetch is caught by the handler's catch; any HTTP answer, and
\* an unset NETLIFY_SITE_ID or NETLIFY_ACCESS_TOKEN, lead to the 200 return.
Deploy(i) ==
    /\ pc[i] = "deploy"
    /\ \E ok \in BOOLEAN :
         IF ok
         THEN /\ Log(i, Call("deploy", branchOf(i), Null, "ok"))
              /\ pc' = [pc EXCEPT ![i] = "done"]
              /\ resp' = [resp EXCEPT ![i] = Pending(variant, branchOf(i))]
              /\ UNCHANGED error
         ELSE /\ Log(i, Call("deploy", branchOf(i), Null, "fail"))
              /\ Caught(i, Message("deploy", "fail"))
    /\ UNCHANGED <<variant, cfgOk, clock, storeVars, event, rec, mainBranchSha,
                   branchCreated, existingComments, fileSha>>

\* (variation) a failed deleteRef replaces the error that is reported
cleanupResponse_masked(v, original, res) ==
    IF res = "ok" THEN ServerError(v, original)
    ELSE ServerError(v, <<"deleteRef", res>>)

\* the return that ends the catch block; cleanupError is only logged
cleanupResponse(v, original, res) == ServerError(v, original)

\* octokit.git.deleteRef({ ref: `heads/${newBranchName}` }) in the catch
\* block, then the 500 return.
Cleanup(i) ==
    /\ pc[i] = "cleanup"
    /\ \E ok \in BOOLEAN :
         LET name == branchOf(i)
             res == IF ~ok THEN "fail"
                    ELSE IF name \notin DOMAIN branches THEN "notfound"
                    ELSE "ok"
         IN
         /\ Log(i, Call("deleteRef", name, Null, res))
         /\ IF res = "ok"
            THEN /\ branches' = [b \in DOMAIN branches \ {name} |-> branches[b]]
                 /\ pulls' = {p \in pulls : p.head # name}
            ELSE UNCHANGED <<branches, pulls>>
         /\ pc' = [pc EXCEPT ![i] = "done"]
         /\ resp' = [resp EXCEPT ![i] = cleanupResponse(variant, error[i], res)]
    /\ UNCHANGED <<variant, cfgOk, clock, main, event, rec, mainBranchSha,
                   branchCreated, existingComments, fileSha, error>>

\* ------------------------------------------------------------- environment
\* A reviewer merges an open review request: the files of the review branch
\* reach the main line when each of them extends what the main line holds.
Mergeable(b) ==
    \A p \in DOMAIN branches[b] :
        p \in DOMAIN main => IsPrefix(main[p], branches[b][p])

Merge(b) ==
    /\ b \in DOMAIN branches
    /\ \E p \in pulls : p.head = b
    /\ Mergeable(b)
    /\ main' = branches[b] @@ main
    /\ main' # main
    /\ pulls' = {p \in pulls : p.head # b}
    /\ UNCHANGED <<variant, cfgOk, clock, branches, pc, event, rec,
                   mainBranchSha, branchCreated, existingComments, fileSha,
                   error, calls, resp>>

\* Time passes.  The clock is read by arriving invocations only, and only
\* whether two arrivals fall on the same instant matters: the clock advances
\* while an invocation is still to arrive, at most once more than there were
\* arrivals.
Arrived == {i \in Invocations : pc[i] # "idle"}

Tick ==
    /\ clock <= Cardinality(Arrived)
    /\ Arrived # Invocations
    /\ clock' = clock + 1
    /\ UNCHANGED <<variant, cfgOk, storeVars, pc, event, rec, mainBranchSha,
                   branchCreated, existingComments, fileSha, error, calls, resp>>

\* ---------------------------------------------------------- specifications
Next ==
    \/ \E i \in Invocations : \E e \in EventsC : Receive(i, e)
    \/ \E i \in Invocations : GetRef(i)
    \/ \E i \in Invocations : CreateRef(i)
    \/ \E i \in Invocations : GetContent(i)
    \/ \E i \in Invocations : CreateOrUpdate(i)
    \/ \E i \in Invocations : PullsCreate(i)
    \/ \E i \in Invocations : Deploy(i)
    \/ \E i \in Invocations : Cleanup(i)
    \/ \E b \in DOMAIN branches : Merge(b)
    \/ Tick

Spec == Init /\ [][Next]_vars

\* Validation specification: one invocation, every shape of event.
Methods == {"POST", "GET"}
FormNames == {Undefined, OtherForm, CommentsForm}

MalformedEvents ==
    {[NoEvent EXCEPT !.httpMethod = m, !.bodyKind = k] :
        m \in Methods, k \in {"missing", "garbage"}}

NoPayloadEvents ==
    {[NoEvent EXCEPT !.httpMethod = m, !.bodyKind = "json"] : m \in Methods}

NoDataEvents ==
    {[NoEvent EXCEPT !.httpMethod = m, !.bodyKind = "json", !.hasPayload = TRUE,
                     !.form_name = f] : m \in Methods, f \in FormNames}

FieldEvents ==
    [httpMethod : Methods, bodyKind : {"json"}, hasPayload : {TRUE},
     hasData : {TRUE}, form_name : FormNames, id : {Undefined, <<"s", "1">>},
     name : {Undefined, <<"A", " ">>},
     comment : {Undefined, <<>>, <<" ", "h", "i">>},
     article_slug : {Undefined, <<"a", "_">>, <<"a", "-">>},
     article_title : {Undefined, <<"T">>},
     email : {Undefined, <<"e", "@", "x">>},
     botField : {Undefined, <<>>, <<"x">>}]

EventsV == MalformedEvents \cup NoPayloadEvents \cup NoDataEvents \cup FieldEvents

NextV ==
    \/ \E e \in EventsV : Receive(1, e)
    \/ GetRef(1)
    \/ CreateRef(1)
    \/ GetContent(1)
    \/ CreateOrUpdate(1)
    \/ PullsCreate(1)
    \/ Deploy(1)
    \/ Cleanup(1)
    \/ \E b \in DOMAIN branches : Merge(b)
    \/ Tick

SpecV == Init /\ [][NextV]_vars

\* ---------------------------------------------------------- call-log terms
Last(s) == s[Len(s)]

CallsTo(log, op) == {k \in 1..Len(log) : log[k].op = op}

Succeeded(call) ==
    call.res = "ok" \/ (call.op = "getContent" /\ call.res = "notfound")

IsPublished(r) ==
    r.statusCode = 200 /\ r.body[2] = "Comment published successfully. Thank you!"

IsPending(r) == r.statusCode = 200 /\ r.body[1] = "message" /\ r.body[3] # <<>>
                /\ ~IsPublished(r)

FileAt(tree, path) == IF path \in DOMAIN tree THEN tree[path] ELSE <<>>

\* invocation i issues a call in this step
Issues(i) == Len(calls'[i]) = Len(calls[i]) + 1

\* ---------------------------------------------------------------------- C1
\* C1: under Strategy A no update is lost.  Every step keeps every file of
\* the main line as a prefix of what it becomes (no record removed, changed
\* or reordered), and the step in which an invocation returns the success
\* response leaves the collection of its slug equal to what it was plus that
\* invocation's record at the tail.
C1_NoLostUpdate ==
    [][variant = "A" =>
        /\ \A p \in DOMAIN main :
              p \in DOMAIN main' /\ IsPrefix(main[p], main'[p])
        /\ \A i \in Invocations :
              (IsPublished(resp'[i]) /\ ~IsPublished(resp[i])) =>
                 FileAt(main', pathOf(i)') =
                    FileAt(main, pathOf(i)') \o Encode(<<rec[i]>>)]_vars

\* two invocations have appended to the same collection, one after the other
C1_Witness ==
    /\ variant = "A"
    /\ \E i, j \in Invocations :
         /\ i # j
         /\ IsPublished(resp[i]) /\ IsPublished(resp[j])
         /\ slugOf(i) = slugOf(j)
         /\ Len(FileAt(main, pathOf(i))) = 3

C3_ConflictFails ==
    [][variant = "A" =>
        \A i \in Invocations :
          /\ Cardinality(CallsTo(calls'[i], "createOrUpdateFileContents")) <= 1
          /\ (/\ Issues(i)
              /\ Last(calls'[i]).op = "createOrUpdateFileContents"
              /\ Last(calls'[i]).res = "conflict")
             => /\ main' = main
                /\ pc'[i] = "done"
                /\ resp'[i] = ServerError("A", <<"createOrUpdateFileContents", "conflict">>)
          /\ IsPublished(resp'[i]) =>
                \E k \in CallsTo(calls'[i], "createOrUpdateFileContents") :
                    calls'[i][k].res = "ok"]_vars

\* a losing writer: its write met a conflict after another invocation
\* appended to the same collection
C3_Witness ==
    /\ variant = "A"
    /\ \E i, j \in Invocations :
         /\ i # j
         /\ pc[i] = "done"
         /\ calls[i] # <<>>
         /\ Last(calls[i]).op = "createOrUpdateFileContents"
         /\ Last(calls[i]).res = "conflict"
         /\ resp[i].statusCode = 500
         /\ IsPublished(resp[j])
         /\ slugOf(i) = slugOf(j)

\* ---------------------------------------------------------------------- C4
\* the calls of the append protocol, in the order of section 4.2
StoreOrder ==
    <<"getRef", "createRef", "getContent", "createOrUpdateFileContents",
      "pulls.create">>

ProtocolOps == {StoreOrder[k] : k \in 1..Len(StoreOrder)}

\* the positions of the failed calls of the protocol in a call log
Failures(log) ==
    {k \in 1..Len(log) : log[k].op \in ProtocolOps /\ ~Succeeded(log[k])}

\* error.message of the first failure
OriginalFailure(log) ==
    LET k == CHOOSE k \in Failures(log) : \A m \in Failures(log) : k <= m
    IN  <<log[k].op, log[k].res>>

BranchWasCreated(log) == \E k \in CallsTo(log, "createRef") : log[k].res = "ok"

\* C4: under Strategy B, an invocation that has returned after its read,
\* write or review-request call failed on the branch it had created has
\* called deleteRef, and its response is the server error with the message
\* of that failure.
C4_CleanupAfterFailure ==
    \A i \in Invocations :
      (/\ variant \in StrategyB
       /\ pc[i] = "done"
       /\ BranchWasCreated(calls[i])
       /\ Failures(calls[i]) # {})
      => /\ CallsTo(calls[i], "deleteRef") # {}
         /\ resp[i] = ServerError(variant, OriginalFailure(calls[i]))

\* ---------------------------------------------------------------------- C5
\* C5: under Strategy B an invocation that has called deleteRef is one whose
\* createRef call succeeded.
C5_DeleteOnlyAfterCreate ==
    \A i \in Invocations :
      (variant \in StrategyB /\ CallsTo(calls[i], "deleteRef") # {})
      => BranchWasCreated(calls[i])

\* ---------------------------------------------------------------------- C6
\* C6: under Strategy B, once the compensating deleteRef call has been made,
\* whether it succeeded or failed, the invocation has returned the server
\* error whose message is that of the original failure.
C6_CleanupFailureKeepsError ==
    \A i \in Invocations :
      (/\ variant \in StrategyB
       /\ calls[i] # <<>>
       /\ Last(calls[i]).op = "deleteRef"
       /\ Failures(calls[i]) # {})
      => /\ pc[i] = "done"
         /\ resp[i] = ServerError(variant, OriginalFailure(calls[i]))

\* revision B2: the write failed, and then the deleteRef call failed too
C6_Witness ==
    \E i \in Invocations :
      /\ variant = "B2"
      /\ pc[i] = "done"
      /\ calls[i] # <<>>
      /\ Last(calls[i]).op = "deleteRef"
      /\ Last(calls[i]).res = "fail"
      /\ BranchWasCreated(calls[i])
      /\ OriginalFailure(calls[i]) = <<"createOrUpdateFileContents", "fail">>

\* ---------------------------------------------------------------------- C7
\* C7: under Strategy B no step of an invocation changes the main line, and
\* every write call an invocation has issued is aimed at the branch of that
\* invocation, which is not the main line.
C7_MainUntouched ==
    [][(variant \in StrategyB) =>
        \A i \in Invocations :
          /\ pc'[i] # pc[i] => main' = main
          /\ \A k \in CallsTo(calls'[i], "createOrUpdateFileContents") :
               /\ calls'[i][k].ref = branchOf(i)'
               /\ calls'[i][k].ref # REPO_BRANCH]_vars

\* a successful Strategy B invocation: its branch holds the new record, the
\* main line does not
C7_Witness ==
    \E i \in Invocations :
      /\ variant \in StrategyB
      /\ pc[i] = "done"
      /\ IsPending(resp[i])
      /\ branchOf(i) \in DOMAIN branches
      /\ FileAt(branches[branchOf(i)], pathOf(i)) # FileAt(main, pathOf(i))
      /\ main \in InitialTrees

\* ---------------------------------------------------------------------- C8
\* C8: under Strategy B the protocol calls of an invocation are issued in
\* the order getRef, createRef, getContent, createOrUpdateFileContents,
\* pulls.create, each after the previous one succeeded (not-found counts for
\* the read), the read and the write on the invocation's branch; the success
\* response is held only after pulls.create succeeded.
C8_Sequential ==
    \A i \in Invocations :
      variant \in StrategyB =>
        /\ \A k \in 1..Len(calls[i]) :
             calls[i][k].op \in ProtocolOps =>
               /\ k <= Len(StoreOrder)
               /\ calls[i][k].op = StoreOrder[k]
               /\ k > 1 => /\ calls[i][k - 1].op = StoreOrder[k - 1]
                           /\ Succeeded(calls[i][k - 1])
        /\ \A k \in CallsTo(calls[i], "getContent")
                      \cup CallsTo(calls[i], "createOrUpdateFileContents") :
             calls[i][k].ref = branchOf(i)
        /\ IsPending(resp[i]) =>
             \E k \in CallsTo(calls[i], "pulls.create") : calls[i][k].res = "ok"

\* an invocation went through all five calls and returned success
C8_Witness ==
    \E i \in Invocations :
      /\ variant \in StrategyB
      /\ IsPending(resp[i])
      /\ Len(calls[i]) >= 5
      /\ calls[i][3].res = "ok"
      /\ calls[i][5].op = "pulls.create"

\* ---------------------------------------------------------------------- C9
IsCommentForm(e) ==
    Truthy(e.form_name) /\ StartsWith(e.form_name, FORM_NAME_PREFIX)

\* the event was delivered by POST and its body parses to an object that
\* carries a payload
HasPayload(e) == e.httpMethod = "POST" /\ e.bodyKind = "json" /\ e.hasPayload

IsSkipped(r) ==
    r.statusCode = 200 /\ r.body[2] = "not a comment form. Submission skipped."

IsSpam(r) == r.statusCode = 400 /\ r.body[2] = "Spam submission detected."

StoreOps == ProtocolOps \cup {"deleteRef"}

NoStoreCall(log) == \A k \in 1..Len(log) : log[k].op \notin StoreOps

\* C9: an invocation given a payload whose form name is absent or does not
\* start with FORM_NAME_PREFIX has returned the "skipped" success response
\* and has issued no store call.
C9_OtherFormsSkipped ==
    \A i \in Invocations :
      (pc[i] # "idle" /\ HasPayload(event[i]) /\ ~IsCommentForm(event[i]))
      => /\ pc[i] = "done"
         /\ IsSkipped(resp[i])
         /\ NoStoreCall(calls[i])

\* --------------------------------------------------------------------- C10
\* C10: an invocation given a comment-form payload whose honeypot field is
\* non-empty has returned the spam rejection (client error) and has issued
\* no store call; the main line, the branches and the review requests are
\* as they were.
C10_HoneypotRejected ==
    \A i \in Invocations :
      (/\ pc[i] # "idle"
       /\ HasPayload(event[i])
       /\ IsCommentForm(event[i])
       /\ event[i].hasData
       /\ Truthy(event[i].botField))
      => /\ pc[i] = "done"
         /\ IsSpam(resp[i])
         /\ NoStoreCall(calls[i])
         /\ main \in InitialTrees /\ branches = <<>> /\ pulls = {}

\* --------------------------------------------------------------------- C11
\* the event carries a comment-form payload with a field mapping whose
\* honeypot is empty
IsCommentSubmission(e) ==
    HasPayload(e) /\ IsCommentForm(e) /\ e.hasData /\ ~Truthy(e.botField)

\* the required fields the payload lacks, in the order name, comment,
\* article_slug, article_title
MissingNames(e) == SelectSeq(FieldNames, LAMBDA n : ~Truthy(e[n]))

\* C11: an invocation given a comment-form payload (honeypot empty) that
\* lacks one or more required fields has returned the missing-fields client
\* error, and the names it lists are exactly the missing ones, in the order
\* name, comment, article_slug, article_title.
C11_MissingFieldsListed ==
    \A i \in Invocations :
      (/\ pc[i] # "idle"
       /\ IsCommentSubmission(event[i])
       /\ MissingNames(event[i]) # <<>>)
      => /\ pc[i] = "done"
         /\ resp[i].statusCode = 400
         /\ resp[i].body[2] = "Missing required fields: "
         /\ resp[i].body[3] = MissingNames(event[i])

\* --------------------------------------------------------------------- C12
\* Boundary specification: one invocation; submissions with every required
\* field present whose comment is at the length limit or one character
\* beyond it, with and without surrounding whitespace, and payloads that
\* meet several rejection conditions.
Chars(n) == [k \in 1..n |-> "c"]

BoundaryComments ==
    {Chars(MaxCommentLength),
     <<" ">> \o Chars(MaxCommentLength - 1),
     Chars(MaxCommentLength + 1),
     Chars(MaxCommentLength) \o <<" ">>}

\* names and short comments, with surrounding whitespace and made of
\* whitespace alone
BoundaryNames == {<<"A", " ">>, <<" ", "\t">>}

ShortComments == {<<" ", "h", "i">>, <<" ", "\n">>}

Emails == {Undefined, <<"e", "@", "x">>}

\* slugs with characters that are neither letters nor digits
BoundarySlugs == {<<"a", "_">>, <<"x", "/", "A", ".", "1">>}

\* payloads that meet several rejection conditions at once
OrderEvents ==
    {[ValidEvent(s) EXCEPT !.form_name = f, !.botField = b, !.name = n,
                           !.comment = c] :
        s \in Slugs, f \in {OtherForm, CommentsForm}, b \in {Undefined, <<"x">>},
        n \in {Undefined, <<"A", " ">>},
        c \in {Undefined, <<" ", "h", "i">>, Chars(MaxCommentLength + 1)}}

EventsL ==
    {[ValidEvent(s) EXCEPT !.name = n, !.comment = c, !.email = m] :
        s \in BoundarySlugs, n \in BoundaryNames,
        c \in BoundaryComments \cup ShortComments, m \in Emails}
    \cup OrderEvents

NextL ==
    \/ \E e \in EventsL : Receive(1, e)
    \/ GetRef(1)
    \/ CreateRef(1)
    \/ GetContent(1)
    \/ CreateOrUpdate(1)
    \/ PullsCreate(1)
    \/ Deploy(1)
    \/ Cleanup(1)
    \/ \E b \in DOMAIN branches : Merge(b)
    \/ Tick

SpecL == Init /\ [][NextL]_vars

IsTooLong(r) == r.statusCode = 400 /\ r.body[2] = "Comment is too long"

\* the invocation is in, or has been through, the append protocol
Proceeded(i) ==
    \/ pc[i] \notin {"idle", "done", "threw"}
    \/ \E k \in 1..Len(calls[i]) : calls[i][k].op \in ProtocolOps

\* C12: an invocation given an otherwise valid submission whose comment is
\* longer than 2000 characters has returned the length-specific client error,
\* has issued no store call and has left the main line and the branches as
\* they were; one whose comment is exactly 2000 characters long is not
\* rejected and is in, or has been through, the append protocol.
C12_LengthLimit ==
    \A i \in Invocations :
      (/\ pc[i] # "idle"
       /\ IsCommentSubmission(event[i])
       /\ MissingNames(event[i]) = <<>>)
      => /\ Len(event[i].comment) > 2000
            => /\ pc[i] = "done"
               /\ IsTooLong(resp[i])
               /\ NoStoreCall(calls[i])
               /\ main \in InitialTrees /\ branches = <<>>
         /\ Len(event[i].comment) = 2000
            => /\ ~IsTooLong(resp[i])
               /\ Proceeded(i)

\* --------------------------------------------------------------------- C13
Surrounded(s) == s # <<>> /\ (Head(s) \in Whitespace \/ s[Len(s)] \in Whitespace)

\* the field constraints of a CommentRecord
WellFormed(r) ==
    /\ r.name # <<>> /\ ~Surrounded(r.name)
    /\ r.comment # <<>> /\ ~Surrounded(r.comment)
    /\ Len(r.comment) <= 2000

\* the trees of the store: the main line and every branch
Trees == {main} \cup {branches[b] : b \in DOMAIN branches}

\* C13: every record of every collection of the store, on the main line and
\* on every branch, satisfies the CommentRecord constraints: name non-empty
\* without surrounding whitespace, comment non-empty without surrounding
\* whitespace and at most 2000 characters long.
C13_RecordsWellFormed ==
    \A tree \in Trees : \A path \in DOMAIN tree :
      \A k \in 1..Len(tree[path]) : WellFormed(Decode(tree[path])[k])

\* --------------------------------------------------------------------- C14
\* the ids of the records of a collection, in order
Ids(content) == [k \in 1..Len(content) |-> Decode(content)[k].id]

\* C14: in every collection of the store, on the main line and on every
\* branch, the ids of the records are pairwise distinct, whatever the clock
\* instants at which the appending invocations arrived.
C14_IdsDistinct ==
    \A tree \in Trees : \A path \in DOMAIN tree :
      \A j, k \in 1..Len(tree[path]) :
        j # k => Ids(tree[path])[j] # Ids(tree[path])[k]

\* --------------------------------------------------------------------- C15
\* the record that every payload with this name and this comment, validated
\* at the instant that gave this id, is persisted as
EmailFreeRecord(e, id) ==
    [id |-> id, name |-> Trim(e.name), comment |-> Trim(e.comment),
     date |-> <<"iso", id>>]

Writes(log) == CallsTo(log, "createOrUpdateFileContents")

\* C15: the email never reaches the persisted collection.  The document an
\* invocation writes is the document it read (none when the read found no
\* file) followed by one record fixed by the payload's name and comment and
\* the instant of validation alone, so two payloads that differ only in the
\* email write the same document; and no record of a written document has
\* a member other than id, name, comment and date.
C15_EmailNotPersisted ==
    \A i \in Invocations : \A k \in Writes(calls[i]) :
      LET written == Decode(calls[i][k].content)
          read == IF calls[i][k - 1].res = "ok"
                  THEN Decode(calls[i][k - 1].content) ELSE <<>>
      IN  /\ written = read \o <<EmailFreeRecord(event[i], rec[i].id)>>
          /\ \A j \in 1..Len(written) :
               DOMAIN written[j] = {"id", "name", "comment", "date"}

\* a payload that carries an email has been appended to the store
C15_Witness ==
    \E i \in Invocations :
      /\ Truthy(event[i].email)
      /\ \E k \in Writes(calls[i]) : calls[i][k].res = "ok"

\* --------------------------------------------------------------------- C16
\* the body is absent or is not JSON, or it parses to an object without a
\* payload, or to a comment-form payload without a field mapping
IsMalformed(e) ==
    \/ e.bodyKind # "json"
    \/ ~e.hasPayload
    \/ (IsCommentForm(e) /\ ~e.hasData)

IsMalformedResponse(r) ==
    /\ r.statusCode = 400
    /\ r.body[2] \in {"Malformed request body.", "Event body is missing."}

\* C16: no invocation ends with an uncaught exception, an invocation that
\* has ended has returned a response (skipped, rejected, accepted or server
\* error), and an invocation given by POST an event whose body is malformed
\* has returned the client-error malformed-request response.
C16_StructuredResponse ==
    \A i \in Invocations :
      /\ pc[i] # "threw"
      /\ pc[i] = "done" => resp[i].statusCode \in {200, 400, 405, 500}
      /\ (pc[i] # "idle" /\ event[i].httpMethod = "POST" /\ IsMalformed(event[i]))
         => (pc[i] = "done" /\ IsMalformedResponse(resp[i]))

\* --------------------------------------------------------------------- C17
\* C17: an invocation given an event whose method is not POST has returned
\* the 405 method-not-allowed response and has issued no store call,
\* whatever the body of the event and whether or not the configuration is
\* complete.
C17_MethodNotAllowed ==
    \A i \in Invocations :
      (pc[i] # "idle" /\ event[i].httpMethod # "POST")
      => /\ pc[i] = "done"
         /\ resp[i].statusCode = 405
         /\ NoStoreCall(calls[i])

\* --------------------------------------------------------------------- C18
ReadFailed(log) == \E k \in CallsTo(log, "getContent") : log[k].res = "fail"

\* C18: the step in which the read of the collection answers not-found
\* leaves the invocation about to write, with the empty sequence and no
\* version token; the step in which the write that follows such a read
\* succeeds creates the document, which holds exactly the new record; the
\* step in which the read fails otherwise sends the invocation to its error
\* handling; an invocation whose read failed never issues a write, and when
\* it has returned its response is the server error.
C18_ReadNotFoundOrFailed ==
    [][\A i \in Invocations :
         /\ Issues(i) =>
              LET call == Last(calls'[i]) IN
              /\ (call.op = "getContent" /\ call.res = "notfound")
                 => /\ pc'[i] = "createOrUpdate"
                    /\ existingComments'[i] = <<>>
                    /\ fileSha'[i] = Null
              /\ (/\ call.op = "createOrUpdateFileContents"
                  /\ call.res = "ok"
                  /\ Last(calls[i]).op = "getContent"
                  /\ Last(calls[i]).res = "notfound")
                 => /\ pathOf(i) \notin DOMAIN RefTree(targetRef(i))
                    /\ RefTree(targetRef(i))'[pathOf(i)] = Encode(<<rec[i]>>)
              /\ (call.op = "getContent" /\ call.res = "fail")
                 => pc'[i] \in {"cleanup", "done"}
              /\ call.op = "createOrUpdateFileContents" => ~ReadFailed(calls[i])
         /\ (pc'[i] = "done" /\ ReadFailed(calls'[i]))
            => resp'[i].statusCode = 500]_vars

\* an invocation whose read answered not-found has created the document
C18_Witness ==
    \E i \in Invocations : \E k \in CallsTo(calls[i], "getContent") :
      /\ calls[i][k].res = "notfound"
      /\ Len(calls[i]) > k
      /\ calls[i][k + 1].res = "ok"
      /\ Decode(calls[i][k + 1].content) = <<rec[i]>>
      /\ pc[i] = "done"

\* --------------------------------------------------------------------- C19
\* letters, digits and the hyphen
BranchChars == AlphaNum \cup {"-"}

\* the branch names the invocation asked the store to create
CreatedNames(log) == {log[k].ref : k \in CallsTo(log, "createRef")}

\* C19: every branch name a Strategy B invocation asks the store to create
\* is the literal "comment-", then a string of letters, digits and hyphens
\* as long as the slug that keeps the slug's letters and digits in place,
\* then a hyphen and the record id.
C19_BranchName ==
    \A i \in Invocations : \A b \in CreatedNames(calls[i]) :
      LET slug == event[i].article_slug
          s == SubSeq(b, 2, 1 + Len(slug))
      IN  /\ b = BranchPrefix \o s \o <<"-">> \o rec[i].id
          /\ \A k \in 1..Len(slug) :
               /\ s[k] \in BranchChars
               /\ slug[k] \in AlphaNum => s[k] = slug[k]
          /\ \A k \in 1..Len(rec[i].id) : rec[i].id[k] \in BranchChars

\* --------------------------------------------------------------------- C20
\* text t occurs in text s
Contains(s, t) ==
    \E k \in 0..(Len(s) - Len(t)) : SubSeq(s, k + 1, k + Len(t)) = t

\* C20: the body of every review request a Strategy B invocation asks the
\* store to open contains the article title, the slug, the author name, the
\* comment text and, when the payload carries a submission identifier, that
\* identifier.
C20_ReviewBody ==
    \A i \in Invocations : \A k \in CallsTo(calls[i], "pulls.create") :
      LET body == calls[i][k].content
          e == event[i]
      IN  /\ Contains(body, e.article_title)
          /\ Contains(body, e.article_slug)
          /\ Contains(body, rec[i].name)
          /\ Contains(body, rec[i].comment)
          /\ Truthy(e.id) => Contains(body, e.id)

\* --------------------------------------------------------------------- C21
\* Direct-append specification: the invocations of revision A alone.
NextA ==
    \/ \E i \in Invocations : \E e \in EventsC : Receive(i, e)
    \/ \E i \in Invocations : GetContent(i)
    \/ \E i \in Invocations : CreateOrUpdate(i)
    \/ Tick

SpecA == InitWith("A") /\ [][NextA]_vars

\* the positions of the reads that returned a document
Reads(log) == {k \in CallsTo(log, "getContent") : log[k].res = "ok"}

Deletes(i) ==
    /\ Issues(i)
    /\ Last(calls'[i]).op = "deleteRef"
    /\ Last(calls'[i]).res = "ok"

\* C22: under Strategy B, whatever the interleaving, the step in which an
\* invocation deletes a branch deletes a branch that this invocation itself
\* created, and that has no open review request.
C22_DeletesOwnBranchOnly ==
    [][\A i \in Invocations :
         Deletes(i) =>
           /\ BranchWasCreated(calls[i])
           /\ ~\E p \in pulls : p.head = Last(calls'[i]).ref]_vars

\* --------------------------------------------------------------------- C23
IsMissingFields(r) == r.statusCode = 400 /\ r.body[2] = "Missing required fields: "

\* the first validation step the payload fails, in the order form filter,
\* honeypot, required fields, length
FirstFailedStep(e) ==
    IF ~IsCommentForm(e) THEN "form"
    ELSE IF Truthy(e.botField) THEN "honeypot"
    ELSE IF MissingNames(e) # <<>> THEN "fields"
    ELSE IF Len(e.comment) > 2000 THEN "length"
    ELSE "none"

\* C23: an invocation given by POST a payload with a field mapping has
\* returned the response of the first validation step the payload fails, in
\* the order form filter, honeypot, required fields, length (skipped, spam,
\* missing fields, too long), and it has constructed its record or entered
\* the append protocol only if the payload fails no step.
C23_ValidationOrder ==
    \A i \in Invocations :
      (pc[i] # "idle" /\ HasPayload(event[i]) /\ event[i].hasData)
      => LET step == FirstFailedStep(event[i]) IN
         /\ step = "form" => IsSkipped(resp[i])
         /\ step = "honeypot" => IsSpam(resp[i])
         /\ step = "fields" => IsMissingFields(resp[i])
         /\ step = "length" => IsTooLong(resp[i])
         /\ (rec[i] # NoComment \/ Proceeded(i)) => step = "none"

\* --------------------------------------------------------------------- C24
\* The platform runs the handler again for a later event once an invocation
\* has returned: an invocation that ended with the server error leaves its
\* place to a new one, whose local variables start afresh.
Return(i) ==
    /\ pc[i] = "done"
    /\ resp[i].statusCode = 500
    /\ pc' = [pc EXCEPT ![i] = "idle"]
    /\ event' = [event EXCEPT ![i] = NoEvent]
    /\ rec' = [rec EXCEPT ![i] = NoComment]
    /\ mainBranchSha' = [mainBranchSha EXCEPT ![i] = Null]
    /\ branchCreated' = [branchCreated EXCEPT ![i] = FALSE]
    /\ existingComments' = [existingComments EXCEPT ![i] = <<>>]
    /\ fileSha' = [fileSha EXCEPT ![i] = Null]
    /\ error' = [error EXCEPT ![i] = Null]
    /\ calls' = [calls EXCEPT ![i] = <<>>]
    /\ resp' = [resp EXCEPT ![i] = NoResponse]
    /\ UNCHANGED <<variant, cfgOk, clock, storeVars>>

\* Review-request specification: the invocations of the second revision of
\* submission-created.js, failed ones followed by later ones.
NextR ==
    \/ \E i \in Invocations : \E e \in EventsC : Receive(i, e)
    \/ \E i \in Invocations : GetRef(i)
    \/ \E i \in Invocations : CreateRef(i)
    \/ \E i \in Invocations : GetContent(i)
    \/ \E i \in Invocations : CreateOrUpdate(i)
    \/ \E i \in Invocations : PullsCreate(i)
    \/ \E i \in Invocations : Cleanup(i)
    \/ \E i \in Invocations : Return(i)
    \/ \E b \in DOMAIN branches : Merge(b)
    \/ Tick

SpecR == InitWith("B2") /\ [][NextR]_vars

\* the collection document of the main line at the tip invocation i resolved
TipDocument(i) == FileAt(mainBranchSha[i], pathOf(i))

\* C24: under Strategy B, the document that an invocation which has
\* returned success wrote on its branch is the collection document of the
\* main line at the tip the invocation resolved, followed by the new record,
\* wherever the main line has moved to since.
C24_BranchDocument ==
    \A i \in Invocations :
      (variant \in StrategyB /\ IsPending(resp[i])) =>
        \A k \in Writes(calls[i]) :
          Decode(calls[i][k].content) = Decode(TipDocument(i)) \o <<rec[i]>>

\* --------------------------------------------------------------------- C25
\* the positions of the calls that read or write a file
FileCalls(log) == CallsTo(log, "getContent") \cup Writes(log)

====
